---- MODULE Spec2Model ----
(***************************************************************************)
(* Model of the schema resolution engine of bin/generator.py: the Parser   *)
(* (build, resolve + imports, sort) over a bounded universe of schema      *)
(* definitions.  Strings are sequences of one-character strings, so that   *)
(* prefix stripping, hyphen normalisation and rsplit are computed.         *)
(* Dictionaries are insertion-ordered sequences of records with unique     *)
(* keys; objects shared by reference are named by their key (Package and   *)
(* Module by ref, Model by the index of the definition it was built from). *)
(***************************************************************************)
EXTENDS Integers, Sequences, FiniteSets, TLC

\* Bounds of the input universe.
MaxDefs == 3        \* number of definitions in the input schema
MaxFields == 2      \* number of properties over all definitions of the input

----------------------------------------------------------------------------
\* Strings

IdPrefix == <<"i", "o", ".", "k", "8", "s", ".">>

RefPrefix == <<"#", "/", "d", "e", "f", "i", "n", "i", "t", "i", "o", "n", "s", "/">> \o IdPrefix

Alphabet == <<"#", "-", ".", "/", "8", "_", "a", "b", "d", "e", "f", "i", "k", "m", "n", "o", "s", "t", "y">>

Ord(c) == CHOOSE k \in 1..Len(Alphabet) : Alphabet[k] = c

RECURSIVE StrLess(_, _)
StrLess(s, t) ==
    IF Len(t) = 0 THEN FALSE
    ELSE IF Len(s) = 0 THEN TRUE
    ELSE IF s[1] # t[1] THEN Ord(s[1]) < Ord(t[1])
    ELSE StrLess(Tail(s), Tail(t))

StrReplace(s, old, new) == [k \in 1..Len(s) |-> IF s[k] = old THEN new ELSE s[k]]

\* the index of the last "." of s at or before k, 0 when there is none
RECURSIVE LastSepFrom(_, _)
LastSepFrom(s, k) ==
    IF k = 0 THEN 0 ELSE IF s[k] = "." THEN k ELSE LastSepFrom(s, k - 1)

LastSep(s) == LastSepFrom(s, Len(s))

RECURSIVE RSplit(_, _)
RSplit(s, maxsplit) ==
    IF maxsplit = 0 \/ LastSep(s) = 0 THEN <<s>>
    ELSE Append(RSplit(SubSeq(s, 1, LastSep(s) - 1), maxsplit - 1),
                SubSeq(s, LastSep(s) + 1, Len(s)))

\* A variant of _split_ref that pads the split to three parts.
RECURSIVE PadLeft(_)
PadLeft(parts) == IF Len(parts) >= 3 THEN parts ELSE PadLeft(<<(<<>>)>> \o parts)

Mut_split_ref(s) == PadLeft(RSplit(StrReplace(s, "-", "_"), 2))

_split_ref(s) == RSplit(StrReplace(s, "-", "_"), 2)

RECURSIVE _make_ref(_)
_make_ref(args) ==
    IF Len(args) = 1 THEN args[1]
    ELSE args[1] \o <<".">> \o _make_ref(Tail(args))

parent_ref(ref) == RSplit(ref, 1)[1]

TYPE_MAPPING(type) ==
    CASE type = "integer" -> "int"
      [] type = "string" -> "six.text_type"
      [] OTHER -> type

----------------------------------------------------------------------------
\* Input universe

Idents ==
    { IdPrefix \o <<"a", ".", "m", ".", "_">>,
      IdPrefix \o <<"a", ".", "m", ".", "-">>,
      IdPrefix \o <<"a", ".", "m", ".", "y">>,
      IdPrefix \o <<"b", ".", "n", ".", "y">>,
      IdPrefix \o <<"m", ".", "y">> }

RefTargets ==
    { <<"a", ".", "m", ".", "-">>,
      <<"a", ".", "m", ".", "y">>,
      <<"b", ".", "n", ".", "y">> }

NoRef == <<>>

\* a property with neither "type" nor "$ref", or one with a "$ref"
Properties ==
    { [type |-> "None", ref |-> NoRef] }
    \cup { [type |-> "None", ref |-> RefPrefix \o t] : t \in RefTargets }

\* the number of properties of the first j definitions, counts[k] being the
\* number of properties of the k-th
RECURSIVE Offset(_, _)
Offset(counts, j) == IF j = 0 THEN 0 ELSE Offset(counts, j - 1) + counts[j]

\* the schema whose k-th definition has the identifier ids[k] and the next
\* counts[k] properties of props
Schema(ids, counts, props) ==
    [k \in 1..Len(ids) |->
        [id |-> ids[k],
         properties |-> SubSeq(props, Offset(counts, k - 1) + 1, Offset(counts, k))]]

----------------------------------------------------------------------------
\* State

VARIABLES
    definitions,   \* Parser._spec, in iteration order
    packages,      \* Parser._packages
    modules,       \* Parser._modules
    models,        \* Parser._models
    heap,          \* the Model objects, by index of their definition
    imports,       \* the local dict "imports" of _resolve_references
    pc,            \* position in Parser.parse
    i,             \* loop index of _parse_models
    mi,            \* loop index over modules in _resolve_references
    ki,            \* loop index over module.models in _resolve_references
    pi,            \* loop index over packages in _sort
    qi,            \* loop index over package.modules in _sort
    err            \* the exception that left Parser.parse

vars == <<definitions, packages, modules, models, heap, imports, pc, i, mi, ki, pi, qi, err>>

NoError == [kind |-> "", args |-> <<>>]

Has(tbl, ref) == \E k \in 1..Len(tbl) : tbl[k].ref = ref

Idx(tbl, ref) == CHOOSE k \in 1..Len(tbl) : tbl[k].ref = ref

DictSet(tbl, entry) ==
    IF Has(tbl, entry.ref) THEN [tbl EXCEPT ![Idx(tbl, entry.ref)] = entry]
    ELSE Append(tbl, entry)

Primitive(type) == [kind |-> "Primitive", name |-> TYPE_MAPPING(type), model |-> 0]

RawType(type) == [kind |-> "raw", name |-> type, model |-> 0]

ModelType(m) == [kind |-> "Model", name |-> "", model |-> m]

isinstance_Model(ft) == ft.kind = "Model"

Init ==
    /\ \E n \in 1..MaxDefs :
         \E ids \in [1..n -> Idents] :
           \E counts \in [1..n -> 0..MaxFields] :
             /\ \A j, k \in 1..n : ids[j] = ids[k] => j = k
             /\ Offset(counts, n) <= MaxFields
             /\ \E props \in [1..Offset(counts, n) -> Properties] :
                  definitions = Schema(ids, counts, props)
    /\ packages = <<>>
    /\ modules = <<>>
    /\ models = <<>>
    /\ heap = <<>>
    /\ imports = <<>>
    /\ pc = "build"
    /\ i = 1
    /\ mi = 1
    /\ ki = 1
    /\ pi = 1
    /\ qi = 1
    /\ err = NoError

----------------------------------------------------------------------------
\* Build phase

Mut_get_package(pkgs, package_ref) ==
    IF Has(pkgs, package_ref)
    THEN [pkgs EXCEPT ![Idx(pkgs, package_ref)].modules = <<>>]
    ELSE DictSet(pkgs, [ref |-> package_ref, modules |-> <<>>])

_get_package(pkgs, package_ref) ==
    IF Has(pkgs, package_ref) THEN pkgs
    ELSE DictSet(pkgs, [ref |-> package_ref, modules |-> <<>>])

MutHasModule(mods, ref) == FALSE

HasModule(mods, ref) == Has(mods, ref)

\* the tables after _get_module(package, module_name), package being the
\* Package registered under package_ref
_get_module(tbl, package_ref, module_name) ==
    LET Get(ref) ==
            IF HasModule(tbl.modules, ref) THEN tbl
            ELSE [packages |-> [tbl.packages EXCEPT
                                   ![Idx(tbl.packages, package_ref)].modules = Append(@, ref)],
                  modules |-> DictSet(tbl.modules,
                                      [ref |-> ref, name |-> module_name,
                                       imports |-> <<>>, models |-> <<>>])]
    IN Get(_make_ref(<<package_ref, module_name>>))

Fields(properties) ==
    [k \in 1..Len(properties) |->
        [name |-> k, type |-> RawType(properties[k].type), ref |-> properties[k].ref]]

\* one iteration of the loop of _parse_models (lines 91-103); a definition
\* bound over a singleton set is a local value, evaluated once
_parse_models ==
    /\ pc = "build"
    /\ i <= Len(definitions)
    /\ \E parts \in { _split_ref(SubSeq(definitions[i].id, Len(IdPrefix) + 1,
                                        Len(definitions[i].id))) } :
         IF Len(parts) # 3
         THEN /\ pc' = "error"
              /\ err' = [kind |-> "ValueError", args |-> <<>>]
              /\ UNCHANGED <<packages, modules, models, heap, i>>
         ELSE \E t2 \in { _get_module([packages |-> _get_package(packages, parts[1]),
                                       modules |-> modules], parts[1], parts[2]) } :
              \E m \in { Idx(t2.modules, _make_ref(<<parts[1], parts[2]>>)) } :
              \E model \in { [ref |-> _make_ref(<<parts[1], t2.modules[m].name, parts[3]>>),
                              name |-> parts[3],
                              fields |-> Fields(definitions[i].properties)] } :
                /\ heap' = Append(heap, model)
                /\ packages' = t2.packages
                /\ modules' = [t2.modules EXCEPT ![m].models = Append(@, i)]
                /\ models' = DictSet(models, [ref |-> model.ref, model |-> i])
                /\ i' = i + 1
                /\ pc' = IF i = Len(definitions) THEN "resolve" ELSE "build"
                /\ err' = err
    /\ UNCHANGED <<definitions, imports, mi, ki, pi, qi>>

----------------------------------------------------------------------------
\* Resolve phase (field types and imports)

\* _get_model on the tables t2 that _get_package and _get_module left
_get_model(t2, package_ref, module_ref, def_name) ==
    LET Lookup(ref) ==
            IF Has(models, ref)
            THEN [tbl |-> t2, model |-> models[Idx(models, ref)].model, err |-> NoError]
            ELSE [tbl |-> t2, model |-> 0, err |-> [kind |-> "KeyError", args |-> <<ref>>]]
    IN Lookup(_make_ref(<<package_ref, t2.modules[Idx(t2.modules, module_ref)].name, def_name>>))

\* the outcome of _resolve_ref(ref) on the tables tbl: the tables it leaves,
\* the Model it returns (0 when it raises) and the exception it raises
_resolve_ref(tbl, ref) ==
    LET Resolve(parts) ==
            IF Len(parts) # 3
            THEN [tbl |-> tbl, model |-> 0, err |-> [kind |-> "ValueError", args |-> <<>>]]
            ELSE _get_model(_get_module([packages |-> _get_package(tbl.packages, parts[1]),
                                         modules |-> tbl.modules], parts[1], parts[2]),
                            parts[1], _make_ref(<<parts[1], parts[2]>>), parts[3])
    IN Resolve(_split_ref(SubSeq(ref, Len(RefPrefix) + 1, Len(ref))))

MutFieldType(field, model) ==
    IF field.ref # NoRef THEN ModelType(model)
    ELSE IF field.type.name = "None" THEN field.type
    ELSE Primitive(field.type.name)

FieldType(field, model) ==
    IF field.ref # NoRef THEN ModelType(model) ELSE Primitive(field.type.name)

\* _resolve_fields over fields[k..], new_fields and the tables so far in acc
RECURSIVE _resolve_fields(_, _, _)
_resolve_fields(fields, k, acc) ==
    IF k > Len(fields) THEN acc
    ELSE LET Step(field, r) ==
                 IF r.err # NoError
                 THEN [tbl |-> r.tbl, new_fields |-> acc.new_fields, err |-> r.err]
                 ELSE _resolve_fields(fields, k + 1,
                          [tbl |-> r.tbl,
                           new_fields |-> Append(acc.new_fields,
                                                 [field EXCEPT !.type = FieldType(field, r.model)]),
                           err |-> NoError])
         IN Step(fields[k],
                 IF fields[k].ref # NoRef THEN _resolve_ref(acc.tbl, fields[k].ref)
                 ELSE [tbl |-> acc.tbl, model |-> 0, err |-> NoError])

MutAddModel(ms, ft) == Append(ms, ft)

AddModel(ms, ft) ==
    IF \E k \in 1..Len(ms) : ms[k] = ft THEN ms ELSE Append(ms, ft)

\* lines 135-142 for the Model ft, whose parent_ref is key
AddImport(acc, ft, key) ==
    LET Add(tbl, imps) ==
            [tbl |-> tbl,
             imports |-> [imps EXCEPT ![Idx(imps, key)].models = AddModel(@, ft)]]
        New(parts) ==
            Add(_get_module([packages |-> _get_package(acc.tbl.packages, parts[1]),
                             modules |-> acc.tbl.modules], parts[1], parts[2]),
                DictSet(acc.imports, [ref |-> key,
                                      module |-> _make_ref(<<parts[1], parts[2]>>),
                                      models |-> <<>>]))
    IN IF Has(acc.imports, key) THEN Add(acc.tbl, acc.imports)
       ELSE New(_split_ref(heap[ft].ref))

\* lines 131-142 over fields[k..]: acc holds the tables and the dict imports
RECURSIVE Collect(_, _, _, _)
Collect(fields, k, model_parent_ref, acc) ==
    IF k > Len(fields) THEN acc
    ELSE LET Step(ft, ft_parent_ref) ==
                 IF ft_parent_ref # model_parent_ref
                 THEN Collect(fields, k + 1, model_parent_ref, AddImport(acc, ft, ft_parent_ref))
                 ELSE Collect(fields, k + 1, model_parent_ref, acc)
         IN IF isinstance_Model(fields[k].type)
            THEN Step(fields[k].type.model, parent_ref(heap[fields[k].type.model].ref))
            ELSE Collect(fields, k + 1, model_parent_ref, acc)

\* one iteration of the loop over module.models (lines 129-142)
ResolveModel ==
    /\ pc = "resolve"
    /\ mi <= Len(modules)
    /\ ki <= Len(modules[mi].models)
    /\ \E model \in { modules[mi].models[ki] } :
       \E r \in { _resolve_fields(heap[model].fields, 1,
                      [tbl |-> [packages |-> packages, modules |-> modules],
                       new_fields |-> <<>>, err |-> NoError]) } :
         IF r.err # NoError
         THEN /\ pc' = "error"
              /\ err' = r.err
              /\ packages' = r.tbl.packages
              /\ modules' = r.tbl.modules
              /\ UNCHANGED <<heap, imports, ki>>
         ELSE \E c \in { Collect(r.new_fields, 1, parent_ref(heap[model].ref),
                                 [tbl |-> r.tbl, imports |-> imports]) } :
                /\ heap' = [heap EXCEPT ![model].fields = r.new_fields]
                /\ packages' = c.tbl.packages
                /\ modules' = c.tbl.modules
                /\ imports' = c.imports
                /\ ki' = ki + 1
                /\ UNCHANGED <<pc, err>>
    /\ UNCHANGED <<definitions, models, i, mi, pi, qi>>

MutModuleDone(k, module) == k > 1

ModuleDone(k, module) == k > Len(module.models)

ImportsOf(dict) == [k \in 1..Len(dict) |-> [module |-> dict[k].module, models |-> dict[k].models]]

\* line 143, and the step of the loop over self._modules.values()
SetImports ==
    /\ pc = "resolve"
    /\ mi <= Len(modules)
    /\ ModuleDone(ki, modules[mi])
    /\ modules' = [modules EXCEPT ![mi].imports = ImportsOf(imports)]
    /\ imports' = <<>>
    /\ mi' = mi + 1
    /\ ki' = 1
    /\ pc' = IF mi = Len(modules) THEN "sort" ELSE "resolve"
    /\ UNCHANGED <<definitions, packages, models, heap, i, pi, qi, err>>

----------------------------------------------------------------------------
\* Sort phase

RECURSIVE Insert(_, _)
Insert(sorted, imp) ==
    IF sorted = <<>> THEN <<imp>>
    ELSE IF StrLess(imp.module, sorted[1].module) THEN <<imp>> \o sorted
    ELSE <<sorted[1]>> \o Insert(Tail(sorted), imp)

\* module.imports.sort(key=lambda i: i.module.ref), a stable sort
RECURSIVE SortImports(_)
SortImports(imps) ==
    IF imps = <<>> THEN <<>>
    ELSE Insert(SortImports(SubSeq(imps, 1, Len(imps) - 1)), imps[Len(imps)])

Node(model) == [ref |-> heap[model].ref, model |-> model, dependants |-> <<>>, dependencies |-> <<>>]

setdefault(nodes, node) == IF Has(nodes, node.ref) THEN nodes ELSE Append(nodes, node)

MutSameModule(ft, model) == TRUE

SameModule(ft, model) == parent_ref(heap[ft].ref) = parent_ref(heap[model].ref)

\* lines 176-177: the Model ft becomes a dependency of the node of model
AddDependency(nodes, model, ft) ==
    LET Add(n1) ==
            [n1 EXCEPT ![Idx(n1, heap[model].ref)].dependencies = Append(@, heap[ft].ref)]
    IN Add(setdefault(nodes, Node(ft)))

\* lines 174-177 over fields[f..] of model
RECURSIVE AddDependencies(_, _, _, _)
AddDependencies(nodes, model, fields, f) ==
    IF f > Len(fields) THEN nodes
    ELSE IF isinstance_Model(fields[f].type) /\ SameModule(fields[f].type.model, model)
    THEN AddDependencies(AddDependency(nodes, model, fields[f].type.model), model, fields, f + 1)
    ELSE AddDependencies(nodes, model, fields, f + 1)

\* lines 172-177 over ms[k..]
RECURSIVE BuildNodes(_, _, _)
BuildNodes(nodes, ms, k) ==
    IF k > Len(ms) THEN nodes
    ELSE BuildNodes(AddDependencies(setdefault(nodes, Node(ms[k])), ms[k], heap[ms[k]].fields, 1),
                    ms, k + 1)

\* lines 178-180 from the d-th dependency of the n-th node on
RECURSIVE AddDependants(_, _, _)
AddDependants(nodes, n, d) ==
    IF n > Len(nodes) THEN nodes
    ELSE IF d > Len(nodes[n].dependencies) THEN AddDependants(nodes, n + 1, 1)
    ELSE AddDependants([nodes EXCEPT ![Idx(nodes, nodes[n].dependencies[d])].dependants =
                                         Append(@, nodes[n].ref)], n, d + 1)

MutIsTop(n) == TRUE

IsTop(n) == Len(n.dependencies) = 0

\* the index of the first x in list[k..], 0 when there is none
RECURSIVE IndexFrom(_, _, _)
IndexFrom(list, x, k) ==
    IF k > Len(list) THEN 0 ELSE IF list[k] = x THEN k ELSE IndexFrom(list, x, k + 1)

\* lines 187-189 for the node dep (an index), at is the place of top_node in
\* its dependencies: list.remove raises ValueError when there is none
ReleaseOne(st, dep, at) ==
    LET Removed(left) ==
            [st EXCEPT !.nodes[dep].dependencies = left,
                       !.top_nodes = IF Len(left) = 0 THEN Append(@, st.nodes[dep].ref) ELSE @]
    IN IF at = 0 THEN [st EXCEPT !.err = [kind |-> "ValueError", args |-> <<>>]]
       ELSE Removed(SubSeq(st.nodes[dep].dependencies, 1, at - 1)
                    \o SubSeq(st.nodes[dep].dependencies, at + 1,
                              Len(st.nodes[dep].dependencies)))

\* lines 186-189 from the d-th of the dependants of top_node on
RECURSIVE Release(_, _, _, _)
Release(st, top_node, dependants, d) ==
    IF d > Len(dependants) \/ st.err # NoError THEN st
    ELSE LET Step(dep) ==
                 Release(ReleaseOne(st, dep, IndexFrom(st.nodes[dep].dependencies, top_node, 1)),
                         top_node, dependants, d + 1)
         IN Step(Idx(st.nodes, dependants[d]))

\* the while loop of lines 183-189
RECURSIVE Emit(_)
Emit(st) ==
    IF st.top_nodes = <<>> \/ st.err # NoError THEN st
    ELSE LET Pop(top_node) ==
                 Emit(Release([st EXCEPT !.top_nodes = SubSeq(@, 1, Len(@) - 1),
                                         !.models = Append(@, top_node.model)],
                              top_node.ref, top_node.dependants, 1))
         IN Pop(st.nodes[Idx(st.nodes, st.top_nodes[Len(st.top_nodes)])])

\* line 181
TopNodes(nodes) ==
    LET Refs(top) == [k \in 1..Len(top) |-> top[k].ref]
    IN Refs(SelectSeq(nodes, IsTop))

_sort_models(ms) ==
    LET Sort(nodes) ==
            Emit([nodes |-> nodes, top_nodes |-> TopNodes(nodes), models |-> <<>>,
                  err |-> NoError])
    IN Sort(AddDependants(BuildNodes(<<>>, ms, 1), 1, 1))

\* one iteration of the inner loop of _sort (lines 165-166)
SortModule ==
    /\ pc = "sort"
    /\ pi <= Len(packages)
    /\ qi <= Len(packages[pi].modules)
    /\ \E m \in { Idx(modules, packages[pi].modules[qi]) } :
       \E r \in { _sort_models(modules[m].models) } :
         IF r.err # NoError
         THEN /\ pc' = "error"
              /\ err' = r.err
              /\ modules' = [modules EXCEPT ![m].imports = SortImports(@)]
              /\ UNCHANGED <<pi, qi>>
         ELSE /\ modules' = [modules EXCEPT ![m].imports = SortImports(@),
                                            ![m].models = r.models]
              /\ pc' = IF pi = Len(packages) /\ qi = Len(packages[pi].modules)
                       THEN "done" ELSE "sort"
              /\ qi' = IF qi = Len(packages[pi].modules) THEN 1 ELSE qi + 1
              /\ pi' = IF qi = Len(packages[pi].modules) THEN pi + 1 ELSE pi
              /\ err' = err
    /\ UNCHANGED <<definitions, packages, models, heap, imports, i, mi, ki>>

Next == _parse_models \/ ResolveModel \/ SetImports \/ SortModule

Spec == Init /\ [][Next]_vars

----------------------------------------------------------------------------
\* Views of the state used by the properties

\* the reference an input identifier stands for: prefix stripped, hyphens
\* normalised
NormId(j) ==
    StrReplace(SubSeq(definitions[j].id, Len(IdPrefix) + 1, Len(definitions[j].id)), "-", "_")

\* the definition a $ref names
NormRef(ref) == StrReplace(SubSeq(ref, Len(RefPrefix) + 1, Len(ref)), "-", "_")

\* fewer than two "." in the identifier after its prefix
Malformed(j) ==
    LET SecondMissing(last) ==
            last <= Len(IdPrefix) \/ LastSepFrom(definitions[j].id, last - 1) <= Len(IdPrefix)
    IN SecondMissing(LastSepFrom(definitions[j].id, Len(definitions[j].id)))

\* no two input identifiers stand for the same reference
DistinctRefs == \A j, k \in 1..Len(definitions) : NormId(j) = NormId(k) => j = k

\* the $refs of the input that name no definition of the input
MissingRefs ==
    UNION { { [owner |-> j, ref |-> NormRef(definitions[j].properties[f].ref)] :
                f \in { g \in 1..Len(definitions[j].properties) :
                          /\ definitions[j].properties[g].ref # NoRef
                          /\ \A k \in 1..Len(definitions) :
                               NormId(k) # NormRef(definitions[j].properties[g].ref) } } :
            j \in 1..Len(definitions) }

AfterBuild == pc = "resolve" /\ mi = 1 /\ ki = 1

AfterResolve == pc \in {"sort", "done"}

FieldsOf(j) == { heap[j].fields[f] : f \in 1..Len(heap[j].fields) }

Resolved(j) == \A fld \in FieldsOf(j) : fld.type.kind # "raw"

AllResolved == \A j \in 1..Len(heap) : Resolved(j)

\* the Models built in the module of index x
BuiltIn(x) == { j \in 1..Len(heap) : parent_ref(heap[j].ref) = modules[x].ref }

\* the Models the fields of Model j resolve to
Targets(j) == { fld.type.model : fld \in { g \in FieldsOf(j) : g.type.kind = "Model" } }

\* those of the same module
Deps(j) == { t \in Targets(j) : parent_ref(heap[t].ref) = parent_ref(heap[j].ref) }

\* the Models of S that are on, or depend on, a same-module reference cycle
RECURSIVE Peel(_)
Peel(S) ==
    LET free == { j \in S : Deps(j) \cap S = {} }
    IN IF free = {} THEN S ELSE Peel(S \ free)

HasCycle(x) == Peel(BuiltIn(x)) # {}

\* the loop of _sort has passed the module of index x
Sorted(x) ==
    /\ pc \in {"sort", "done", "error"}
    /\ \E p \in 1..Len(packages) : \E q \in 1..Len(packages[p].modules) :
         /\ packages[p].modules[q] = modules[x].ref
         /\ p < pi \/ (p = pi /\ q < qi)

Positions(seq, v) == { k \in 1..Len(seq) : seq[k] = v }

\* every same-module field reference M -> N of a Model M of the final
\* sequence of module x has N before M (N, or a Model that equals it as a
\* tuple: list.index compares with ==)
TopologicalOrder(x) ==
    \A k \in 1..Len(modules[x].models) :
      \A n \in Deps(modules[x].models[k]) :
        \E h \in 1..(k - 1) : heap[modules[x].models[h]] = heap[n]

----------------------------------------------------------------------------
C2_CycleDetected ==
    \A x \in 1..Len(modules) :
      (Sorted(x) /\ HasCycle(x)) =>
        /\ pc = "error"
        /\ err.kind = "CyclicDependency"
        /\ Len(modules[x].models) = Cardinality(BuiltIn(x))

\* C3.  A $ref to a definition absent from the input makes the resolve phase
\* fail with an error that names the owning Model and the missing reference,
\* and the sort phase is never entered.
C3_UnresolvedReference ==
    /\ MissingRefs # {} => pc \in {"build", "resolve", "error"}
    /\ (pc = "error" /\ err.kind = "KeyError") =>
         \E u \in MissingRefs :
           /\ \E k \in 1..Len(err.args) : err.args[k] = u.ref
           /\ \E k \in 1..Len(err.args) : err.args[k] = NormId(u.owner)

\* C4.  After _resolve_references, the import list of every Module X holds
\* exactly one Import per Module Y # X that a field of a Model of X resolves
\* into, and that Import lists exactly the referenced Models of Y, each once.
\* the Models of other Modules that the fields of the Models in S resolve to,
\* each with the Module it belongs to
Used(S) ==
    { [model |-> t, module |-> parent_ref(heap[t].ref)] : t \in UNION { Targets(j) : j \in S } \ S }

\* imps holds one Import per Module of used, listing its Models of used once
ExactImports(imps, self, used) ==
    /\ \A u \in used : Cardinality({ k \in 1..Len(imps) : imps[k].module = u.module }) = 1
    /\ \A k \in 1..Len(imps) :
         /\ imps[k].module # self
         /\ imps[k].models # <<>>
         /\ \A u \in used :
              Cardinality(Positions(imps[k].models, u.model)) =
                IF u.module = imps[k].module THEN 1 ELSE 0
         /\ \A h \in 1..Len(imps[k].models) : \E u \in used : u.model = imps[k].models[h]

C4_Imports ==
    AfterResolve =>
      \A x \in 1..Len(modules) :
        ExactImports(modules[x].imports, modules[x].ref, Used(BuiltIn(x)))

\* two fields of one Module reference the same Model of another Module
C4_Witness ==
    /\ AfterResolve
    /\ \E x \in 1..Len(modules) : \E j \in BuiltIn(x) :
         \E f, g \in 1..Len(heap[j].fields) :
           /\ f # g
           /\ heap[j].fields[f].type.kind = "Model"
           /\ heap[j].fields[f].type = heap[j].fields[g].type
           /\ heap[j].fields[f].type.model \notin BuiltIn(x)
           /\ Len(modules[x].imports) = 1

\* C5.  After a resolve phase without error, the type slot of every Field is a
\* Primitive descriptor or a Model of the Model registry, never a raw type name.
C5_ResolutionTotal ==
    AfterResolve =>
      \A j \in 1..Len(heap) : \A fld \in FieldsOf(j) :
        \/ fld.type.kind = "Primitive" /\ fld.ref = NoRef
        \/ /\ fld.type.kind = "Model"
           /\ \E k \in 1..Len(models) :
                models[k].model = fld.type.model /\ models[k].ref = NormRef(fld.ref)

\* a field with neither type nor $ref next to a field with a $ref
C5_Witness ==
    /\ AfterResolve
    /\ \E j \in 1..Len(heap) : \E f \in 1..Len(heap[j].fields) :
         /\ definitions[j].properties[f] = [type |-> "None", ref |-> NoRef]
         /\ heap[j].fields[f].type.kind = "Primitive"
    /\ \E j \in 1..Len(heap) : Targets(j) # {}

\* the build left every Module once in one Package, no two Models of a Module
\* with one reference, and the registry mapping every identifier to its Model
UniquelyBuilt ==
    /\ \A x \in 1..Len(modules) :
         /\ Cardinality({ pq \in (1..Len(packages)) \X (1..Len(modules)) :
                            /\ pq[2] <= Len(packages[pq[1]].modules)
                            /\ packages[pq[1]].modules[pq[2]] = modules[x].ref }) = 1
         /\ \A h, k \in 1..Len(modules[x].models) :
              heap[modules[x].models[h]].ref = heap[modules[x].models[k]].ref => h = k
    /\ \A j \in 1..Len(definitions) :
         /\ Cardinality({ xk \in (1..Len(modules)) \X (1..Len(definitions)) :
                            /\ xk[2] <= Len(modules[xk[1]].models)
                            /\ modules[xk[1]].models[xk[2]] = j }) = 1
         /\ \E k \in 1..Len(models) : models[k].ref = NormId(j) /\ models[k].model = j
    /\ Len(models) = Len(definitions)

\* C6.  After the build phase every input identifier maps to exactly one
\* Package, Module and Model, and the registry holds one Model per identifier.
C6_Original == AfterBuild => UniquelyBuilt

\* C6 as amended: the same, for inputs whose identifiers stand for pairwise
\* distinct references.
C6_Unique == (AfterBuild /\ DistinctRefs) => UniquelyBuilt

\* two Models built into one Module, one of them from a hyphenated identifier
C6_Witness ==
    /\ AfterBuild
    /\ DistinctRefs
    /\ \E x \in 1..Len(modules) : Len(modules[x].models) >= 2
    /\ \E j \in 1..Len(definitions) :
         \E k \in 1..Len(definitions[j].id) : definitions[j].id[k] = "-"

\* C7.  An identifier with fewer than two separators after the prefix makes
\* the build fail; the loop never passes it, no later phase runs and nothing
\* is returned.
C7_MalformedAborts ==
    (\E j \in 1..Len(definitions) : Malformed(j)) =>
      /\ pc \in {"build", "error"}
      /\ pc = "error" => i <= Len(definitions)
      /\ pc = "error" => err.kind = "ValueError"
      /\ \A j \in 1..(i - 1) : ~Malformed(j)
      /\ i <= Len(definitions)
      /\ pc = "error" => Malformed(i)
      /\ \A j \in 1..Len(heap) : \A fld \in FieldsOf(j) : fld.type.kind = "raw"
      /\ \A x \in 1..Len(modules) : modules[x].imports = <<>>
      /\ imports = <<>> /\ mi = 1 /\ ki = 1 /\ pi = 1 /\ qi = 1

\* the build failed on a malformed identifier after it had built a Model
C7_Witness ==
    /\ pc = "error"
    /\ err.kind = "ValueError"
    /\ Len(heap) >= 1
    /\ Malformed(i)

\* the final sequence of module x holds every Model built in it once, and
\* nothing else
Permutation(x) ==
    /\ \A j \in BuiltIn(x) : Cardinality(Positions(modules[x].models, j)) = 1
    /\ \A k \in 1..Len(modules[x].models) : modules[x].models[k] \in BuiltIn(x)

SortRaised == pc = "error" /\ mi > Len(modules) /\ i > Len(definitions)

\* C8.  For every Module without a same-module reference cycle, _sort_models
\* returns without raising a permutation of the Module's Models.
C8_Original ==
    /\ ~SortRaised
    /\ \A x \in 1..Len(modules) : (Sorted(x) /\ ~HasCycle(x)) => Permutation(x)

\* C8 as amended: the same, for inputs whose identifiers stand for pairwise
\* distinct references.
C8_Permutation ==
    (pc \in {"sort", "done", "error"} /\ DistinctRefs) =>
      /\ ~SortRaised
      /\ \A x \in 1..Len(modules) : (Sorted(x) /\ ~HasCycle(x)) => Permutation(x)

\* a sorted Module one Model of which references another of them twice
C8_Witness ==
    /\ DistinctRefs
    /\ \E x \in 1..Len(modules) :
         /\ Sorted(x)
         /\ ~HasCycle(x)
         /\ \E j \in BuiltIn(x) : \E f, g \in 1..Len(heap[j].fields) :
              /\ f # g
              /\ heap[j].fields[f].type.kind = "Model"
              /\ heap[j].fields[f].type = heap[j].fields[g].type
              /\ heap[j].fields[f].type.model \in BuiltIn(x)

ModuleRefs == [x \in 1..Len(modules) |-> modules[x].ref]

\* C9.  Once _parse_models has returned, no step adds, removes or replaces an
\* entry of the Package, Module or Model table, or appends a Module to a Package.
C9_Original ==
    [][pc # "build" => (packages' = packages /\ ModuleRefs' = ModuleRefs /\ models' = models)]_vars

IsPrefix(s, t) == Len(s) <= Len(t) /\ SubSeq(t, 1, Len(s)) = s

\* C9 as amended: once _parse_models has returned, the Model table never
\* changes and no step that returns changes the Package or Module table; a
\* resolve step that raises may have added entries, and only added.
C9_TablesFrozen ==
    [][pc # "build" =>
         /\ models' = models
         /\ IF pc' = "error" /\ pc = "resolve"
            THEN /\ IsPrefix(ModuleRefs, ModuleRefs')
                 /\ Len(packages) <= Len(packages')
                 /\ \A p \in 1..Len(packages) :
                      /\ packages'[p].ref = packages[p].ref
                      /\ IsPrefix(packages[p].modules, packages'[p].modules)
            ELSE packages' = packages /\ ModuleRefs' = ModuleRefs]_vars

\* a resolve step raised on a $ref into a Module no identifier defines, and
\* left that Module in the tables
C9_Witness ==
    /\ pc = "error"
    /\ err.kind = "KeyError"
    /\ \E x \in 1..Len(modules) : BuiltIn(x) = {}

\* line 143 has written the import list of the module of index x
ImportsComputed(x) == pc \in {"resolve", "sort", "done", "error"} /\ x < mi

\* C10.  No field is resolved before every Model is registered, no import is
\* computed for any Module before every Field of the whole graph is resolved,
\* and no Module is sorted before the imports of every Module are computed.
C10_Original ==
    /\ (\E j \in 1..Len(heap) : \E fld \in FieldsOf(j) : fld.type.kind # "raw") =>
         Len(heap) = Len(definitions)
    /\ (\E x \in 1..Len(modules) : ImportsComputed(x)) => AllResolved
    /\ (pc \in {"sort", "done"}) => \A x \in 1..Len(modules) : ImportsComputed(x)

\* C10 as amended: the imports of a Module are computed once every Field of
\* the Models of that Module is resolved; later Modules may be unresolved.
C10_Phases ==
    /\ Len(heap) # Len(definitions) =>
         \A j \in 1..Len(heap) : \A fld \in FieldsOf(j) : fld.type.kind = "raw"
    /\ \A x \in 1..Len(modules) : ImportsComputed(x) => \A j \in BuiltIn(x) : Resolved(j)
    /\ imports # <<>> => \E k \in 1..(ki - 1) : Resolved(modules[mi].models[k])
    /\ (pc \in {"sort", "done"}) =>
         (AllResolved /\ \A x \in 1..Len(modules) : ImportsComputed(x))

\* the import list of one Module is written, a Field of another is still raw
C10_Witness ==
    /\ pc = "resolve"
    /\ \E x \in 1..Len(modules) : ImportsComputed(x) /\ modules[x].imports # <<>>
    /\ ~AllResolved
====
